---- MODULE Spec2Model ----
(***************************************************************************)
(* Model of the address parser extension: the popup's processAddressData,  *)
(* the background message listener, parseAddressWithLLM and                *)
(* parseAddressWithRegex.                                                  *)
(*                                                                         *)
(* A JavaScript string is a sequence of one-character strings.  A JSON     *)
(* value is a record [t, v]: t is its type tag and v its text, so that a   *)
(* number, a boolean or a nested object taken from the model's reply can   *)
(* be told from a string.                                                  *)
(***************************************************************************)
EXTENDS Integers, Sequences, FiniteSets, TLC

\* ------------------------------------------------------------------------
\* Bounds of the model
\* ------------------------------------------------------------------------

\* longest generated input string of the pure-function specification
MaxLen == 3

\* number of 'parseAddress' requests that can be in flight together
MaxReq == 2

\* ------------------------------------------------------------------------
\* Characters (the classes the regular expressions of the source use)
\* ------------------------------------------------------------------------

Digits == {"0", "1", "2", "3", "4", "5", "6", "7", "8", "9"}

UpperLetters == {"A", "B", "C", "D", "E", "F", "G", "H", "I", "J", "K", "L", "M",
                 "N", "O", "P", "Q", "R", "S", "T", "U", "V", "W", "X", "Y", "Z"}

LowerLetters == {"a", "b", "c", "d", "e", "f", "g", "h", "i", "j", "k", "l", "m",
                 "n", "o", "p", "q", "r", "s", "t", "u", "v", "w", "x", "y", "z"}

\* \s
IsSpace(c) == c \in {" ", "\n", "\r", "\t"}

\* \w
IsWord(c) == c \in Digits \cup UpperLetters \cup LowerLetters \cup {"_"}

\* case folding of the 'i' flag
ToLower(c) ==
  CASE c = "A" -> "a" [] c = "B" -> "b" [] c = "C" -> "c" [] c = "D" -> "d"
    [] c = "E" -> "e" [] c = "F" -> "f" [] c = "G" -> "g" [] c = "H" -> "h"
    [] c = "I" -> "i" [] c = "J" -> "j" [] c = "K" -> "k" [] c = "L" -> "l"
    [] c = "M" -> "m" [] c = "N" -> "n" [] c = "O" -> "o" [] c = "P" -> "p"
    [] c = "Q" -> "q" [] c = "R" -> "r" [] c = "S" -> "s" [] c = "T" -> "t"
    [] c = "U" -> "u" [] c = "V" -> "v" [] c = "W" -> "w" [] c = "X" -> "x"
    [] c = "Y" -> "y" [] c = "Z" -> "z" [] OTHER -> c

\* ------------------------------------------------------------------------
\* String primitives
\* ------------------------------------------------------------------------

\* s.substring(from - 1), 1-based
Drop(s, from) == IF from > Len(s) THEN << >> ELSE SubSeq(s, from, Len(s))

\* s.substring(0, n)
Take(s, n) == IF n <= 0 THEN << >> ELSE SubSeq(s, 1, n)

\* is position i of s (1-based, 1..Len(s)+1) a word boundary, \b
IsBoundary(s, i) ==
  LET before == i > 1 /\ i - 1 <= Len(s) /\ IsWord(s[i - 1])
      after  == i >= 1 /\ i <= Len(s) /\ IsWord(s[i])
  IN  before # after

\* does the literal lit occur in s at position i
OccursAt(s, lit, i) ==
  /\ i >= 1
  /\ i + Len(lit) - 1 <= Len(s)
  /\ \A k \in 1..Len(lit) : s[i + k - 1] = lit[k]

\* the same under the 'i' flag
OccursAtI(s, lit, i) ==
  /\ i >= 1
  /\ i + Len(lit) - 1 <= Len(s)
  /\ \A k \in 1..Len(lit) : ToLower(s[i + k - 1]) = ToLower(lit[k])

\* s.indexOf(lit) + 1, or 0 when lit does not occur
IndexOf(s, lit) ==
  LET hits == {i \in 1..(Len(s) + 1) : OccursAt(s, lit, i)}
  IN  IF hits = {} THEN 0 ELSE CHOOSE i \in hits : \A j \in hits : i <= j

\* s.replace(lit, rep) with a string pattern: the first occurrence only
ReplaceFirst(s, lit, rep) ==
  LET i == IndexOf(s, lit)
  IN  IF i = 0 THEN s ELSE Take(s, i - 1) \o rep \o Drop(s, i + Len(lit))

\* s.trim()
Trim(s) ==
  LET keep == {i \in 1..Len(s) : ~IsSpace(s[i])}
  IN  IF keep = {} THEN << >>
      ELSE SubSeq(s, CHOOSE i \in keep : \A j \in keep : i <= j,
                     CHOOSE i \in keep : \A j \in keep : i >= j)

\* end (exclusive) of the run of whitespace that starts at i: \s* is greedy
SkipSpaces(s, i) ==
  LET stops == {j \in i..(Len(s) + 1) : j > Len(s) \/ ~IsSpace(s[j])}
  IN  CHOOSE j \in stops : \A k \in stops : j <= k

\* ------------------------------------------------------------------------
\* parseAddressWithRegex: the normalization pass
\* ------------------------------------------------------------------------

RECURSIVE ReplaceCRLF(_, _)
\* .replace(/\r\n/g, '\n')
ReplaceCRLF(s, i) ==
  IF i > Len(s) THEN << >>
  ELSE IF OccursAt(s, <<"\r", "\n">>, i) THEN <<"\n">> \o ReplaceCRLF(s, i + 2)
  ELSE <<s[i]>> \o ReplaceCRLF(s, i + 1)

\* end (exclusive) of the run of line feeds that starts at i
SkipNewlines(s, i) ==
  LET stops == {j \in i..(Len(s) + 1) : j > Len(s) \/ s[j] # "\n"}
  IN  CHOOSE j \in stops : \A k \in stops : j <= k

RECURSIVE ReplaceNewlines(_, _)
\* .replace(/\n+/g, ', ')
ReplaceNewlines(s, i) ==
  IF i > Len(s) THEN << >>
  ELSE IF s[i] = "\n" THEN <<",", " ">> \o ReplaceNewlines(s, SkipNewlines(s, i))
  ELSE <<s[i]>> \o ReplaceNewlines(s, i + 1)

RECURSIVE CollapseSpaces(_, _)
\* .replace(/\s+/g, ' ')
CollapseSpaces(s, i) ==
  IF i > Len(s) THEN << >>
  ELSE IF IsSpace(s[i]) THEN <<" ">> \o CollapseSpaces(s, SkipSpaces(s, i))
  ELSE <<s[i]>> \o CollapseSpaces(s, i + 1)

RECURSIVE ReplaceDoubleCommas(_, _)
\* .replace(/,,/g, ','): the matches do not overlap, the scan resumes after each
ReplaceDoubleCommas(s, i) ==
  IF i > Len(s) THEN << >>
  ELSE IF OccursAt(s, <<",", ",">>, i) THEN <<",">> \o ReplaceDoubleCommas(s, i + 2)
  ELSE <<s[i]>> \o ReplaceDoubleCommas(s, i + 1)

\* the cleaning chain at the head of parseAddressWithRegex
Normalize(s) ==
  ReplaceDoubleCommas(CollapseSpaces(ReplaceNewlines(ReplaceCRLF(Trim(s), 1), 1), 1), 1)

\* ------------------------------------------------------------------------
\* parseAddressWithRegex: ZIP and state extraction
\* ------------------------------------------------------------------------

AllDigits(s, from, to) == to <= Len(s) /\ \A k \in from..to : s[k] \in Digits

\* end (exclusive) of a match of /\b(\d{5}(-\d{4})?)\b/ that starts at i, 0 if none.
\* The optional group is greedy; when the \b after it fails the matcher
\* backtracks to the five digits alone.
ZipEndAt(s, i) ==
  IF ~(IsBoundary(s, i) /\ AllDigits(s, i, i + 4)) THEN 0
  ELSE IF /\ i + 5 <= Len(s)
          /\ s[i + 5] = "-"
          /\ AllDigits(s, i + 6, i + 9)
          /\ IsBoundary(s, i + 10) THEN i + 10
  ELSE IF IsBoundary(s, i + 5) THEN i + 5
  ELSE 0

\* address.match(/\b(\d{5}(-\d{4})?)\b/): index 0 is "no match"; text is group 1
ZipMatch(s) ==
  LET hits == {i \in 1..Len(s) : ZipEndAt(s, i) # 0}
  IN  IF hits = {} THEN [index |-> 0, text |-> << >>]
      ELSE LET i == CHOOSE h \in hits : \A j \in hits : h <= j
           IN  [index |-> i, text |-> SubSeq(s, i, ZipEndAt(s, i) - 1)]

\* position of the two capitals of a match of /,?\s*([A-Z]{2})\s*,?/ that
\* starts at i, 0 if none
StateLettersAt(s, i) ==
  LET afterComma == IF i <= Len(s) /\ s[i] = "," THEN i + 1 ELSE i
      j == SkipSpaces(s, afterComma)
  IN  IF j + 1 <= Len(s) /\ s[j] \in UpperLetters /\ s[j + 1] \in UpperLetters
      THEN j ELSE 0

\* address.match(/,?\s*([A-Z]{2})\s*,?/): whole is match[0], code is match[1]
StateMatch(s) ==
  LET hits == {i \in 1..Len(s) : StateLettersAt(s, i) # 0}
  IN  IF hits = {} THEN [index |-> 0, whole |-> << >>, code |-> << >>]
      ELSE LET i == CHOOSE h \in hits : \A j \in hits : h <= j
               j == StateLettersAt(s, i)
               e == SkipSpaces(s, j + 2)
               stop == IF e <= Len(s) /\ s[e] = "," THEN e + 1 ELSE e
           IN  [index |-> i, whole |-> SubSeq(s, i, stop - 1),
                code |-> SubSeq(s, j, j + 1)]

\* lines 129-133: the working string after the ZIP step
AfterZip(s) ==
  LET m == ZipMatch(s)
  IN  IF m.index # 0 THEN ReplaceFirst(s, m.text, << >>) ELSE s

\* lines 137-141: the working string after the state step
AfterState(s) ==
  LET m == StateMatch(s)
  IN  IF m.index # 0 THEN ReplaceFirst(s, m.whole, <<",">>) ELSE s

RECURSIVE CollapseCommaPairs(_, _)
\* .replace(/,\s*,/g, ',')
CollapseCommaPairs(s, i) ==
  IF i > Len(s) THEN << >>
  ELSE IF s[i] = "," /\ SkipSpaces(s, i + 1) <= Len(s) /\ s[SkipSpaces(s, i + 1)] = ","
       THEN <<",">> \o CollapseCommaPairs(s, SkipSpaces(s, i + 1) + 1)
  ELSE <<s[i]>> \o CollapseCommaPairs(s, i + 1)

\* .replace(/,\s*$/g, '')
StripTrailingComma(s) ==
  LET hits == {i \in 1..Len(s) : s[i] = "," /\ SkipSpaces(s, i + 1) > Len(s)}
  IN  IF hits = {} THEN s
      ELSE Take(s, (CHOOSE h \in hits : \A j \in hits : h <= j) - 1)

\* line 144
CleanCommas(s) == StripTrailingComma(CollapseCommaPairs(s, 1))

\* ------------------------------------------------------------------------
\* parseAddressWithRegex: city and street split
\* ------------------------------------------------------------------------

\* position of the last comma of s, 0 if there is none
LastComma(s) ==
  LET hits == {i \in 1..Len(s) : s[i] = ","}
  IN  IF hits = {} THEN 0 ELSE CHOOSE h \in hits : \A j \in hits : h >= j

\* position of the first comma of s, 0 if there is none
FirstComma(s) == IndexOf(s, <<",">>)

\* [a-z0-9-] under the 'i' flag
IsUnitChar(c) == c \in Digits \cup UpperLetters \cup LowerLetters \cup {"-"}

\* can [a-z0-9-]+\b match from position q
UnitIdAt(s, q) ==
  \E e \in (q + 1)..(Len(s) + 1) :
     /\ \A k \in q..(e - 1) : IsUnitChar(s[k])
     /\ IsBoundary(s, e)

\* the alternatives of the first pattern family, optional dots spelled out
Keywords1 ==
  { <<"a","p","t">>, <<"a","p","t",".">>, <<"a","p","a","r","t","m","e","n","t">>,
    <<"s","u","i","t","e">>, <<"s","t","e">>, <<"s","t","e",".">>,
    <<"u","n","i","t">>, <<"b","l","d","g">>, <<"b","l","d","g",".">>,
    <<"b","u","i","l","d","i","n","g">>, <<"f","l","o","o","r">>,
    <<"f","l">>, <<"f","l",".">>, <<"r","o","o","m">>,
    <<"r","m">>, <<"r","m",".">> }

\* the alternatives of the third pattern family
Keywords3 ==
  { <<"u","n","i","t">>, <<"a","p","t">>, <<"a","p","t",".">>,
    <<"s","u","i","t","e">>, <<"s","t","e">>, <<"s","t","e",".">> }

\* /\b(apt\.?|...|rm\.?)\s+[a-z0-9-]+\b/i matches at i
Pattern1At(s, i) ==
  /\ IsBoundary(s, i)
  /\ \E kw \in Keywords1 :
       LET p == i + Len(kw)
       IN  /\ OccursAtI(s, kw, i)
           /\ SkipSpaces(s, p) > p
           /\ UnitIdAt(s, SkipSpaces(s, p))

\* /\s+#\s*[a-z0-9-]+\b/i matches at i
Pattern2At(s, i) ==
  LET h == SkipSpaces(s, i)
  IN  /\ h > i
      /\ h <= Len(s)
      /\ s[h] = "#"
      /\ UnitIdAt(s, SkipSpaces(s, h + 1))

\* /\b(unit|apt\.?|suite|ste\.?)\s*#?\s*[a-z0-9-]+\b/i matches at i
Pattern3At(s, i) ==
  /\ IsBoundary(s, i)
  /\ \E kw \in Keywords3 :
       LET q == SkipSpaces(s, i + Len(kw))
           r == IF q <= Len(s) /\ s[q] = "#" THEN SkipSpaces(s, q + 1) ELSE q
       IN  /\ OccursAtI(s, kw, i)
           /\ UnitIdAt(s, r)

\* smallest element of a set of positions, 0 for the empty set
First(hits) == IF hits = {} THEN 0 ELSE CHOOSE h \in hits : \A j \in hits : h <= j

\* streetParts.match(pattern).index + 1 for the three patterns, 0 if no match
PatternIndex(s, n) ==
  First({i \in 1..Len(s) : CASE n = 1 -> Pattern1At(s, i)
                             [] n = 2 -> Pattern2At(s, i)
                             [] OTHER -> Pattern3At(s, i)})

\* lines 165-177: matchIndex + 1 after the loop, 0 when it stays -1.  A
\* pattern whose first match is at offset 0 contributes nothing.
MatchIndex(s) ==
  First({PatternIndex(s, n) : n \in 1..3} \ {0, 1})

\* /^(apt|suite|ste|unit|bldg|#|apartment|building|floor)/i.test(s)
LooksLikeAddr2(s) ==
  \E kw \in { <<"a","p","t">>, <<"s","u","i","t","e">>, <<"s","t","e">>,
              <<"u","n","i","t">>, <<"b","l","d","g">>, <<"#">>,
              <<"a","p","a","r","t","m","e","n","t">>,
              <<"b","u","i","l","d","i","n","g">>, <<"f","l","o","o","r">> } :
     OccursAtI(s, kw, 1)

\* lines 152-203: Address 1 and Address 2 from the street portion
SplitStreet(streetParts) ==
  LET matchIndex == MatchIndex(streetParts)
      comma == FirstComma(streetParts)
      group1 == IF comma = 0 THEN << >>
                ELSE Drop(streetParts, SkipSpaces(streetParts, comma + 1))
      potentialAddr2 == Trim(group1)
  IN  IF matchIndex # 0
        THEN [a1 |-> Trim(Take(streetParts, matchIndex - 1)),
              a2 |-> Trim(Drop(streetParts, matchIndex))]
      ELSE IF comma # 0 /\ group1 # << >> /\ LooksLikeAddr2(potentialAddr2)
        THEN [a1 |-> Trim(Take(streetParts, comma - 1)), a2 |-> potentialAddr2]
      ELSE [a1 |-> streetParts, a2 |-> << >>]

\* ------------------------------------------------------------------------
\* parseAddressWithRegex: city backfill
\* ------------------------------------------------------------------------

\* [\w\s]
IsWordOrSpace(c) == IsWord(c) \/ IsSpace(c)

\* ends (exclusive) of group 1 in the matches of ([\w\s]+)\s+<state> (flag i)
\* that start at i
BackfillEnds(s, state, i) ==
  {g \in (i + 1)..Len(s) :
     /\ \A k \in i..(g - 1) : IsWordOrSpace(s[k])
     /\ IsSpace(s[g])
     /\ OccursAtI(s, state, SkipSpaces(s, g))}

\* cityMatch[1] of address.match(cityBeforeStatePattern), empty if no match:
\* the leftmost start, and for it the longest group (the quantifier is greedy)
BackfillGroup(s, state) ==
  LET starts == {i \in 1..Len(s) : BackfillEnds(s, state, i) # {}}
  IN  IF starts = {} THEN << >>
      ELSE LET i == First(starts)
               ends == BackfillEnds(s, state, i)
               g == CHOOSE e \in ends : \A f \in ends : e >= f
           IN  SubSeq(s, i, g - 1)

RECURSIVE SplitWords(_, _)
\* s.split(/\s+/) from position i on, for a trimmed non-empty s
SplitWords(s, i) ==
  IF i > Len(s) THEN << >>
  ELSE LET stops == {j \in i..(Len(s) + 1) : j > Len(s) \/ IsSpace(s[j])}
           e == First(stops)
       IN  <<SubSeq(s, i, e - 1)>> \o SplitWords(s, SkipSpaces(s, e))

RECURSIVE JoinWords(_, _)
\* words.slice(i - 1).join(' ')
JoinWords(words, i) ==
  IF i > Len(words) THEN << >>
  ELSE IF i = Len(words) THEN words[i]
  ELSE words[i] \o <<" ">> \o JoinWords(words, i + 1)

\* lines 217-219: the last one to three words of the matched group
LastWords(group) ==
  LET potentialCity == SplitWords(Trim(group), 1)
      from == IF Len(potentialCity) - 3 > 0 THEN Len(potentialCity) - 3 ELSE 0
  IN  JoinWords(potentialCity, from + 1)

\* lines 211-224: the city found before the state code, empty if none
CityBackfill(address, state) == LastWords(BackfillGroup(address, state))

\* ------------------------------------------------------------------------
\* JSON values and address records
\* ------------------------------------------------------------------------

Str(s) == [t |-> "str", v |-> s]

EmptyStr == Str(<< >>)

USA == Str(<<"U", "S", "A">>)

\* the JavaScript value undefined: a missing member, a missing argument
Undefined == [t |-> "undef", v |-> << >>]

\* the six keys of a parsed address
AddressKeys == {"Address 1", "Address 2", "City", "State", "ZIP", "Country"}

\* lines 11-18 and 108-115
DefaultResult == [k \in AddressKeys |-> IF k = "Country" THEN USA ELSE EmptyStr]

\* ------------------------------------------------------------------------
\* parseAddressWithRegex
\* ------------------------------------------------------------------------

\* the element of a one-element set: binds a stage of the parse to its value
Only(S) == CHOOSE x \in S : TRUE

\* lines 146-226: city, street split and city backfill on the working string
\* left by the ZIP, state and comma steps, and the record returned
ParseFields(zip, state, address) ==
  LET lastComma == LastComma(address)
      city == IF lastComma # 0 THEN Trim(Drop(address, lastComma + 1)) ELSE << >>
      street == IF lastComma # 0
                  THEN SplitStreet(Trim(Take(address, lastComma - 1)))
                  ELSE [a1 |-> Trim(address), a2 |-> << >>]
      cityName == IF city = << >> /\ state # << >>
                    THEN CityBackfill(address, state) ELSE << >>
  IN  [k \in AddressKeys |->
         CASE k = "Address 1" -> Str(street.a1)
           [] k = "Address 2" -> Str(street.a2)
           [] k = "City" -> Str(IF cityName # << >> THEN cityName ELSE city)
           [] k = "State" -> Str(state)
           [] k = "ZIP" -> Str(zip)
           [] OTHER -> USA]

\* lines 135-226: the state step and the comma clean-up on the working string
\* left by the ZIP step
ParseAfterZip(zip, noZip) ==
  Only({ParseFields(zip, StateMatch(noZip).code, address) :
          address \in {CleanCommas(AfterState(noZip))}})

\* lines 127-226: the ZIP step on the cleaned string, and what follows
ParseCleaned(cleaned) ==
  Only({ParseAfterZip(ZipMatch(cleaned).text, noZip) : noZip \in {AfterZip(cleaned)}})

\* lines 119-226 for a string argument: the record that `return result` gives
ParseString(raw) ==
  Only({ParseCleaned(cleaned) : cleaned \in {Normalize(raw)}})

\* lines 117-226, the try block: address.trim() throws a TypeError when the
\* argument is not a string, before any field of result is assigned
RegexTry(address) ==
  IF address.t = "str"
    THEN [threw |-> FALSE, value |-> ParseString(address.v)]
    ELSE [threw |-> TRUE, value |-> DefaultResult]

\* the function without its catch clause: the exception leaves it
RegexNoCatch(address) == RegexTry(address)

\* lines 106-231: how a call ends, with the catch clause that returns result
RegexOutcome(address) == [threw |-> FALSE, value |-> RegexTry(address).value]

\* the value a caller gets from parseAddressWithRegex(address)
parseAddressWithRegex(address) == RegexOutcome(address).value

\* ------------------------------------------------------------------------
\* The model endpoint's reply and parseAddressWithLLM
\* ------------------------------------------------------------------------

Num(s) == [t |-> "num", v |-> s]

Bool(s) == [t |-> "bool", v |-> s]

Null == [t |-> "null", v |-> << >>]

\* a nested object or array as a member value
Nested(s) == [t |-> "obj", v |-> s]

\* JavaScript truthiness, as `x || default` and `!x` test it
Truthy(val) ==
  CASE val.t = "str" -> val.v # << >>
    [] val.t = "num" -> val.v # <<"0">>
    [] val.t = "bool" -> val.v = <<"t", "r", "u", "e">>
    [] val.t = "obj" -> TRUE
    [] OTHER -> FALSE

\* the member names a reply object of the model can carry: the six fields
\* and one more
ReplyKeys == AddressKeys \cup {"Confidence"}

\* a JSON object is a function on ReplyKeys; a member that is missing reads
\* as undefined
EmptyObject == [k \in ReplyKeys |-> Undefined]

\* the pieces a message content is made of: a run of prose without braces,
\* a brace on its own, or the text of one well-formed JSON object
Text == [seg |-> "text", obj |-> EmptyObject]

Open == [seg |-> "open", obj |-> EmptyObject]

Close == [seg |-> "close", obj |-> EmptyObject]

ObjectText(o) == [seg |-> "obj", obj |-> o]

\* content.match(/\{[\s\S]*\}/): from the first '{' to the last '}' of the
\* content; the empty sequence when there is no match
JsonMatch(content) ==
  LET opens == {i \in 1..Len(content) : content[i].seg \in {"open", "obj"}}
      closes == {i \in 1..Len(content) : content[i].seg \in {"close", "obj"}}
      first == First(opens)
      last == IF closes = {} THEN 0 ELSE CHOOSE c \in closes : \A d \in closes : c >= d
  IN  IF first # 0 /\ first <= last THEN SubSeq(content, first, last) ELSE << >>

\* JSON.parse(jsonMatch[0]) returns: the matched text is one JSON object
JsonParses(match) == Len(match) = 1 /\ match[1].seg = "obj"

\* lines 82-89
Project(parsedAddress) ==
  [k \in AddressKeys |->
     IF Truthy(parsedAddress[k]) THEN parsedAddress[k] ELSE DefaultResult[k]]

\* lines 57-78: does the try block reach `return result`
ModelSucceeds(reply) ==
  /\ reply.kind = "content"
  /\ JsonMatch(reply.content) # << >>
  /\ JsonParses(JsonMatch(reply.content))

\* undefined where a record is expected
NoData == [k \in AddressKeys |-> Undefined]

\* the catch clause without its return statement: the promise resolves with
\* undefined
parseAddressWithLLMNoReturn(address, reply) ==
  IF ModelSucceeds(reply)
    THEN [threw |-> FALSE, value |-> Project(JsonMatch(reply.content)[1].obj)]
    ELSE [threw |-> FALSE, value |-> NoData]

\* the catch clause returning the unused defaultResult of lines 11-18
parseAddressWithLLMDefault(address, reply) ==
  IF ModelSucceeds(reply)
    THEN [threw |-> FALSE, value |-> Project(JsonMatch(reply.content)[1].obj)]
    ELSE [threw |-> FALSE, value |-> DefaultResult]

\* lines 9-99: how the promise of parseAddressWithLLM settles for an address
\* and an endpoint reply; threw is a rejection
parseAddressWithLLM(address, reply) ==
  IF ModelSucceeds(reply)
    THEN [threw |-> FALSE, value |-> Project(JsonMatch(reply.content)[1].obj)]
    ELSE RegexOutcome(address)

\* a response of the listener; NoResponse stands for "sendResponse not called"
Response(success, data, usedLLM) ==
  [success |-> success, data |-> data, usedLLM |-> usedLLM]

NoResponse == Response(FALSE, DefaultResult, FALSE)

\* lines 265-283: the .then and .catch handlers of the listener, given how
\* the promise of parseAddressWithLLM settled
ListenerResponse(address, outcome) ==
  IF ~outcome.threw
    THEN [sent |-> TRUE, response |-> Response(TRUE, outcome.value, TRUE)]
  ELSE IF ~RegexOutcome(address).threw
    THEN [sent |-> TRUE, response |-> Response(TRUE, RegexOutcome(address).value, FALSE)]
  ELSE [sent |-> FALSE, response |-> NoResponse]

\* ------------------------------------------------------------------------
\* The popup: processAddressData
\* ------------------------------------------------------------------------

\* the members a source record can carry besides the six parsed ones
SourceKeys == {"Raw Shipping Address", "Contact", "Account"}

AllKeys == SourceKeys \cup AddressKeys

\* the members present in a record
KeysOf(rec) == {k \in DOMAIN rec : rec[k].t # "undef"}

\* ends (exclusive) of the matches of /\battention\s*-\s*\b/i that start at i
AttentionEnds(s, i) ==
  IF ~(IsBoundary(s, i) /\ OccursAtI(s, <<"a","t","t","e","n","t","i","o","n">>, i))
    THEN {}
  ELSE LET q == SkipSpaces(s, i + 9)
       IN  IF ~(q <= Len(s) /\ s[q] = "-") THEN {}
           ELSE {e \in (q + 1)..SkipSpaces(s, q + 1) : IsBoundary(s, e)}

\* .replace(/\battention\s*-\s*\b/i, '')
StripAttention(s) ==
  LET starts == {i \in 1..Len(s) : AttentionEnds(s, i) # {}}
  IN  IF starts = {} THEN s
      ELSE LET i == First(starts)
               ends == AttentionEnds(s, i)
               e == CHOOSE x \in ends : \A y \in ends : x >= y
           IN  Take(s, i - 1) \o Drop(s, e)

\* .replace(new RegExp(contact, 'i'), '') for a contact made of letters and
\* spaces: the first occurrence, whatever its case
RemoveContact(s, contact) ==
  LET hits == {i \in 1..(Len(s) + 1) : OccursAtI(s, contact, i)}
  IN  IF hits = {} THEN s
      ELSE Take(s, First(hits) - 1) \o Drop(s, First(hits) + Len(contact))

\* lines 95-102: the address string put in the 'parseAddress' message
CleanAddress(addressData) ==
  LET address == Trim(StripAttention(addressData["Raw Shipping Address"].v))
  IN  IF Truthy(addressData["Contact"])
        THEN Trim(RemoveContact(address, addressData["Contact"].v))
        ELSE address

\* the spread written the other way round: the source record wins
MergeSourceWins(addressData, data) ==
  [k \in AllKeys |->
     IF addressData[k].t # "undef" THEN addressData[k]
     ELSE IF k \in KeysOf(data) THEN data[k]
     ELSE Undefined]

\* lines 124-127: { ...addressData, ...response.data }
Merge(addressData, data) ==
  [k \in AllKeys |-> IF k \in KeysOf(data) THEN data[k] ELSE addressData[k]]

\* ------------------------------------------------------------------------
\* Inputs
\* ------------------------------------------------------------------------

\* a source record: the object read from the clipboard or sent by the
\* content script
Source(raw, contact, account, city) ==
  [k \in AllKeys |->
     CASE k = "Raw Shipping Address" -> raw
       [] k = "Contact" -> contact
       [] k = "Account" -> account
       [] k = "City" -> city
       [] OTHER -> Undefined]

\* the source records a popup invocation is given
SourceRecords ==
  {
    \* README example
    Source(Str(<<"1", "2", "3", " ", "M", "a", "i", "n", " ", "S", "t", ",", " ", "S", "u", "i", "t", "e", " ", "1", "0", "0", ",", " ", "S", "a", "n", " ", "F", "r", "a", "n", "c", "i", "s", "c", "o", ",", " ", "C", "A", " ", "9", "4", "1", "0", "5">>),
           Str(<<"J", "o", "h", "n", " ", "S", "m", "i", "t", "h">>), Undefined, Undefined),
    \* attention line and contact, several lines
    Source(Str(<<"A", "t", "t", "e", "n", "t", "i", "o", "n", " ", "-", " ", "J", "o", "h", "n", " ", "S", "m", "i", "t", "h", "\n", "1", "2", "3", " ", "M", "a", "i", "n", " ", "S", "t", "\n", "S", "p", "r", "i", "n", "g", "f", "i", "e", "l", "d", ",", " ", "I", "L", " ", "6", "2", "7", "0", "4">>),
           Str(<<"J", "o", "h", "n", " ", "S", "m", "i", "t", "h">>), Str(<<"A", "c", "m", "e">>), Undefined),
    \* no raw address
    Source(Undefined,
           Str(<<"J", "o", "h", "n", " ", "S", "m", "i", "t", "h">>), Str(<<"A", "c", "m", "e">>), Undefined),
    \* empty raw address
    Source(Str(<< >>),
           Undefined, Undefined, Undefined),
    \* raw address of whitespace only
    Source(Str(<<" ", " ", "\n">>),
           Undefined, Str(<<"A", "c", "m", "e">>), Undefined),
    \* raw address that is the attention marker and the contact
    Source(Str(<<"A", "t", "t", "e", "n", "t", "i", "o", "n", " ", "-", " ", "j", "o", "h", "n", " ", "s", "m", "i", "t", "h">>),
           Str(<<"J", "o", "h", "n", " ", "S", "m", "i", "t", "h">>), Undefined, Undefined),
    \* raw address that is the contact
    Source(Str(<<"J", "o", "h", "n", " ", "S", "m", "i", "t", "h", " ">>),
           Str(<<"J", "o", "h", "n", " ", "S", "m", "i", "t", "h">>), Undefined, Undefined),
    \* raw address that is not a string
    Source(Num(<<"4", "2">>),
           Undefined, Undefined, Undefined),
    \* CR-LF lines, no contact
    Source(Str(<<"5", " ", "N", " ", "M", "a", "i", "n", " ", "S", "t", "\r", "\n", "A", "u", "s", "t", "i", "n", ",", " ", "T", "X", " ", "7", "8", "7", "0", "1">>),
           Undefined, Str(<<"A", "c", "m", "e">>), Undefined),
    \* no commas; the record already has a City
    Source(Str(<<"1", "2", "3", " ", "M", "a", "i", "n", " ", "S", "t", " ", "S", "a", "n", " ", "F", "r", "a", "n", "c", "i", "s", "c", "o", " ", "C", "A", " ", "9", "4", "1", "0", "5">>),
           Str(<< >>), Undefined, Str(<<"O", "l", "d", " ", "T", "o", "w", "n">>)),
    \* capitals in the street line
    Source(Str(<<"1", " ", "M", "A", "I", "N", " ", "S", "T", ",", " ", "B", "O", "S", "T", "O", "N", ",", " ", "M", "A", " ", "0", "2", "1", "0", "1">>),
           Undefined, Undefined, Undefined),
    \* inline unit
    Source(Str(<<"1", "2", "3", " ", "M", "a", "i", "n", " ", "S", "t", " ", "A", "p", "t", " ", "4", "B", ",", " ", "S", "p", "r", "i", "n", "g", "f", "i", "e", "l", "d", ",", " ", "I", "L">>),
           Str(<<"A", "n", "n", " ", "L", "e", "e">>), Undefined, Str(<<"O", "l", "d", " ", "T", "o", "w", "n">>))
  }

\* the source records of the concurrent specification
ConcSourceRecords ==
  {
    Source(Str(<<"1", "2", "3", " ", "M", "a", "i", "n", " ", "S", "t", ",", " ", "S", "u", "i", "t", "e", " ", "1", "0", "0", ",", " ", "S", "a", "n", " ", "F", "r", "a", "n", "c", "i", "s", "c", "o", ",", " ", "C", "A", " ", "9", "4", "1", "0", "5">>),
           Str(<<"J", "o", "h", "n", " ", "S", "m", "i", "t", "h">>), Undefined, Undefined),
    Source(Str(<<"5", " ", "N", " ", "M", "a", "i", "n", " ", "S", "t", "\r", "\n", "A", "u", "s", "t", "i", "n", ",", " ", "T", "X", " ", "7", "8", "7", "0", "1">>),
           Undefined, Str(<<"A", "c", "m", "e">>), Undefined)
  }

\* an object as the model returns it for an address, all six fields filled
FullObject ==
  [k \in ReplyKeys |->
     CASE k = "Address 1" -> Str(<<"9", " ", "O", "a", "k", " ", "R", "d">>)
       [] k = "Address 2" -> Str(<<"A", "p", "t", " ", "2">>)
       [] k = "City" -> Str(<<"S", "a", "l", "e", "m">>)
       [] k = "State" -> Str(<<"O", "R">>)
       [] k = "ZIP" -> Str(<<"9", "7", "3", "0", "1">>)
       [] k = "Country" -> Str(<<"U", "S">>)
       [] OTHER -> Undefined]

\* what a member of a reply object can be instead of a non-empty string
OtherValues ==
  { Undefined, EmptyStr, Null, Num(<<"0">>), Num(<<"9", "7", "3", "0", "1">>),
    Bool(<<"t", "r", "u", "e">>), Nested(<<"{", "}">>) }

\* the reply objects: the full one, the full one with one member replaced,
\* with a seventh member, and the empty object
ReplyObjects ==
  {FullObject, EmptyObject, [FullObject EXCEPT !["Confidence"] = Num(<<"1">>)]}
    \cup {[FullObject EXCEPT ![k] = val] : k \in AddressKeys, val \in OtherValues}

\* the message contents: an object alone; an object inside prose; prose with
\* braces of its own around or after an object; no object at all
Contents ==
  {<<ObjectText(o)>> : o \in ReplyObjects}
    \cup { <<Text, ObjectText(FullObject), Text>>,
           <<Text, ObjectText(FullObject), Text, Open, Text, Close>>,
           <<ObjectText(FullObject), Text, ObjectText(EmptyObject)>>,
           <<Open, Text, Close, Text, ObjectText(FullObject)>>,
           <<Close, Text, ObjectText(FullObject), Text, Open>>,
           <<Text>>, <<Open, Text>>, <<Close, Text, Open>>, <<Open, Text, Close>> }

\* how the endpoint call of lines 24-66 can end
\*   reject     fetch rejects: the endpoint is unreachable
\*   notok      response.ok is false
\*   badbody    response.json() rejects
\*   nocontent  choices, choices[0], message or content is missing or empty
\*   content    content is a non-empty string
Reply(kind, content) == [kind |-> kind, content |-> content]

FailedReplies == {Reply(kind, << >>) : kind \in {"reject", "notok", "badbody", "nocontent"}}

Replies == FailedReplies \cup {Reply("content", c) : c \in Contents}

\* the replies of the concurrent specification
ConcReplies ==
  { Reply("reject", << >>),
    Reply("content", <<Text, ObjectText(FullObject), Text>>),
    Reply("content", <<ObjectText([FullObject EXCEPT !["ZIP"] = Num(<<"9", "7", "3", "0", "1">>)])>>) }

NoReply == Reply("none", << >>)

\* ------------------------------------------------------------------------
\* State
\* ------------------------------------------------------------------------

\* the invocations of processAddressData that are observed, each with its
\* 'parseAddress' request
Req == 1..MaxReq

VARIABLES
  pc,           \* popup: where invocation r of processAddressData stands
  addressData,  \* popup: the source record of invocation r
  result,       \* popup: the merged record of invocation r (line 124)
  statusDiv,    \* popup: what the status line shows
  clipboard,    \* the record last written to the clipboard
  message,      \* the address of the 'parseAddress' message of request r
  bg,           \* background: where the listener's work for request r stands
  reqAddress,   \* background: request.address, held by the closure of r
  reply,        \* background: how the endpoint call of request r ended
  outcome,      \* background: how the promise of parseAddressWithLLM settled
  response,     \* what sendResponse of request r was called with
  sendCount,    \* how many times sendResponse of request r was called
  fnPc,         \* pure-function runs: which function was applied
  fnArg,        \* its argument
  fnOnce,       \* the normalization pass applied once
  fnTwice,      \* the normalization pass applied to its own output
  fnOut         \* how the call of parseAddressWithRegex ended

popupVars == <<pc, addressData, result, statusDiv, clipboard>>

bgVars == <<message, bg, reqAddress, reply, outcome, response, sendCount>>

fnVars == <<fnPc, fnArg, fnOnce, fnTwice, fnOut>>

vars == <<pc, addressData, result, statusDiv, clipboard, message, bg,
          reqAddress, reply, outcome, response, sendCount, fnPc, fnArg, fnOnce,
          fnTwice, fnOut>>

NoRecord == [k \in AllKeys |-> Undefined]

NoOutcome == [threw |-> FALSE, value |-> DefaultResult]

\* the extension after loading: no invocation, no request
SystemInit ==
  /\ pc = [r \in Req |-> "idle"]
  /\ addressData = [r \in Req |-> NoRecord]
  /\ result = [r \in Req |-> NoRecord]
  /\ statusDiv = "ready"
  /\ clipboard = NoRecord
  /\ message = [r \in Req |-> Undefined]
  /\ bg = [r \in Req |-> "none"]
  /\ reqAddress = [r \in Req |-> Undefined]
  /\ reply = [r \in Req |-> NoReply]
  /\ outcome = [r \in Req |-> NoOutcome]
  /\ response = [r \in Req |-> NoResponse]
  /\ sendCount = [r \in Req |-> 0]

FnIdle ==
  /\ fnPc = "none"
  /\ fnArg = Undefined
  /\ fnOnce = << >>
  /\ fnTwice = << >>
  /\ fnOut = NoOutcome

Init == SystemInit /\ FnIdle

\* ------------------------------------------------------------------------
\* Actions of the popup and of the background listener
\* ------------------------------------------------------------------------

\* part_000 lines 85-115: processAddressData up to the await of sendMessage.
\* A missing or empty raw address, or one that is not a string, ends the
\* invocation in the catch clause of line 162.
processAddressData(r, data) ==
  /\ pc[r] = "idle"
  /\ addressData' = [addressData EXCEPT ![r] = data]
  /\ IF ~Truthy(data["Raw Shipping Address"])
       THEN /\ pc' = [pc EXCEPT ![r] = "failed"]
            /\ statusDiv' = "error: no raw shipping address"
            /\ UNCHANGED <<message, bg>>
     ELSE IF data["Raw Shipping Address"].t # "str"
       THEN /\ pc' = [pc EXCEPT ![r] = "failed"]
            /\ statusDiv' = "error: replace is not a function"
            /\ UNCHANGED <<message, bg>>
     ELSE /\ pc' = [pc EXCEPT ![r] = "waiting"]
          /\ statusDiv' = "processing"
          /\ message' = [message EXCEPT ![r] = Str(CleanAddress(data))]
          /\ bg' = [bg EXCEPT ![r] = "pending"]
  /\ UNCHANGED <<result, clipboard, reqAddress, reply, outcome, response, sendCount>>
  /\ UNCHANGED fnVars

\* background lines 257-264 and 9-55: the listener takes the message and
\* parseAddressWithLLM runs up to the await of fetch
OnMessage(r) ==
  /\ bg[r] = "pending"
  /\ reqAddress' = [reqAddress EXCEPT ![r] = message[r]]
  /\ bg' = [bg EXCEPT ![r] = "fetching"]
  /\ UNCHANGED <<message, reply, outcome, response, sendCount>>
  /\ UNCHANGED popupVars
  /\ UNCHANGED fnVars

\* background lines 24-99: the endpoint call of request r settles and
\* parseAddressWithLLM runs to its end, its promise settling
FetchSettles(r, rep) ==
  /\ bg[r] = "fetching"
  /\ reply' = [reply EXCEPT ![r] = rep]
  /\ outcome' = [outcome EXCEPT ![r] = parseAddressWithLLM(reqAddress[r], rep)]
  /\ bg' = [bg EXCEPT ![r] = "settled"]
  /\ UNCHANGED <<message, reqAddress, response, sendCount>>
  /\ UNCHANGED popupVars
  /\ UNCHANGED fnVars

\* a listener that keeps the callback in one place shared by the requests:
\* the answer goes to the callback stored last, that of the highest request
\* in flight
RespondShared(r) ==
  /\ bg[r] = "settled"
  /\ LET answer == ListenerResponse(reqAddress[r], outcome[r])
         inFlight == {q \in Req : bg[q] \in {"fetching", "settled"}}
         last == CHOOSE q \in inFlight : \A p \in inFlight : q >= p
     IN  /\ response' = [response EXCEPT ![last] = answer.response]
         /\ sendCount' = [sendCount EXCEPT ![last] = @ + 1]
         /\ bg' = [bg EXCEPT ![r] = "answered"]
  /\ UNCHANGED <<message, reqAddress, reply, outcome>>
  /\ UNCHANGED popupVars
  /\ UNCHANGED fnVars

\* background lines 265-283: the handler of the settled promise calls
\* sendResponse of request r
Respond(r) ==
  /\ bg[r] = "settled"
  /\ LET answer == ListenerResponse(reqAddress[r], outcome[r])
     IN  IF answer.sent
           THEN /\ response' = [response EXCEPT ![r] = answer.response]
                /\ sendCount' = [sendCount EXCEPT ![r] = @ + 1]
                /\ bg' = [bg EXCEPT ![r] = "answered"]
           ELSE /\ bg' = [bg EXCEPT ![r] = "dropped"]
                /\ UNCHANGED <<response, sendCount>>
  /\ UNCHANGED <<message, reqAddress, reply, outcome>>
  /\ UNCHANGED popupVars
  /\ UNCHANGED fnVars

\* part_000 lines 117-161: the popup gets the response, merges it into the
\* source record and writes the record to the clipboard; when both clipboard
\* methods fail the text is shown for copying by hand
ReceiveResponse(r, clipboardWriteSuccess) ==
  /\ pc[r] = "waiting"
  /\ bg[r] = "answered"
  /\ IF ~response[r].success
       THEN /\ pc' = [pc EXCEPT ![r] = "failed"]
            /\ statusDiv' = "error: failed to parse address"
            /\ UNCHANGED <<result, clipboard>>
       ELSE /\ pc' = [pc EXCEPT ![r] = "done"]
            /\ result' = [result EXCEPT ![r] = Merge(addressData[r], response[r].data)]
            /\ IF clipboardWriteSuccess
                 THEN /\ clipboard' = Merge(addressData[r], response[r].data)
                      /\ statusDiv' = IF response[r].usedLLM
                                        THEN "parsed with local LLM"
                                        ELSE "parsed with fallback method"
                 ELSE /\ statusDiv' = "copy this text manually"
                      /\ UNCHANGED clipboard
  /\ bg' = [bg EXCEPT ![r] = "delivered"]
  /\ UNCHANGED <<addressData, message, reqAddress, reply, outcome, response, sendCount>>
  /\ UNCHANGED fnVars

\* ------------------------------------------------------------------------
\* Specifications
\* ------------------------------------------------------------------------

\* one invocation at a time, every source record and every reply
Next ==
  \/ \E data \in SourceRecords : processAddressData(1, data)
  \/ OnMessage(1)
  \/ \E rep \in Replies : FetchSettles(1, rep)
  \/ Respond(1)
  \/ \E ok \in BOOLEAN : ReceiveResponse(1, ok)

Spec == Init /\ [][Next]_vars

\* MaxReq invocations and requests in flight together, settling in any order
ConcNext ==
  \/ \E r \in Req, data \in ConcSourceRecords : processAddressData(r, data)
  \/ \E r \in Req : OnMessage(r)
  \/ \E r \in Req, rep \in ConcReplies : FetchSettles(r, rep)
  \/ \E r \in Req : Respond(r)
  \/ \E r \in Req, ok \in BOOLEAN : ReceiveResponse(r, ok)

ConcSpec == Init /\ [][ConcNext]_vars

\* the event loop runs every continuation that is ready: the listener for a
\* message that arrived, the handlers of a settled promise
FairConcSpec ==
  /\ ConcSpec
  /\ \A r \in Req : WF_vars(OnMessage(r)) /\ WF_vars(Respond(r))

\* ------------------------------------------------------------------------
\* Runs of the pure functions
\* ------------------------------------------------------------------------

\* the characters of the generated strings
FnAlphabet == {"a", ",", " ", "\n", "\r"}

\* every string over FnAlphabet of at most MaxLen characters
ShortStrings == UNION {[1..n -> FnAlphabet] : n \in 0..MaxLen}

\* addresses as the extension meets them
SampleAddresses ==
  {
    <<"1", "2", "3", " ", "M", "a", "i", "n", " ", "S", "t", ",", " ", "S", "u", "i", "t", "e", " ", "1", "0", "0", ",", " ", "S", "a", "n", " ", "F", "r", "a", "n", "c", "i", "s", "c", "o", ",", " ", "C", "A", " ", "9", "4", "1", "0", "5">>,
    <<"1", "2", "3", " ", "M", "a", "i", "n", " ", "S", "t", ",", " ", "S", "p", "r", "i", "n", "g", "f", "i", "e", "l", "d", ",", " ", "I", "L", " ", "6", "2", "7", "0", "4">>,
    <<"1", "2", "3", " ", "M", "a", "i", "n", " ", "S", "t", " ", "A", "p", "t", " ", "4", "B", ",", " ", "S", "p", "r", "i", "n", "g", "f", "i", "e", "l", "d", ",", " ", "I", "L">>,
    <<"1", "2", "3", " ", "M", "a", "i", "n", " ", "S", "t", " ", "S", "a", "n", " ", "F", "r", "a", "n", "c", "i", "s", "c", "o", " ", "C", "A", " ", "9", "4", "1", "0", "5">>,
    <<"5", " ", "N", " ", "M", "a", "i", "n", " ", "S", "t", "\r", "\n", "A", "u", "s", "t", "i", "n", ",", " ", "T", "X", " ", "7", "8", "7", "0", "1">>,
    <<"1", " ", "M", "A", "I", "N", " ", "S", "T", ",", " ", "B", "O", "S", "T", "O", "N", ",", " ", "M", "A", " ", "0", "2", "1", "0", "1">>,
    <<"1", " ", "A", " ", "S", "t", ",", ",", ",", " ", "B", ",", " ", "N", "Y", " ", "1", "2", "3", "4", "5", "-", "6", "7", "8", "9">>,
    <<"9", " ", "O", "A", "K", " ", "R", "d", ",", " ", "S", "a", "l", "e", "m", ",", " ", "O", "R", " ", "9", "7", "3", "0", "1">>,
    <<"P", "O", " ", "B", "o", "x", " ", "1", "2", ",", " ", "R", "e", "n", "o", ",", " ", "N", "V", " ", "8", "9", "5", "0", "1">>,
    <<"1", "2", "3", "4", "5", "6", "7", " ", "E", "l", "m", ",", " ", "R", "e", "n", "o", ",", " ", "N", "V", " ", "3", "4", "5", "6", "7">>,
    <<"A", "p", "t", " ", "4", " ", "O", "a", "k", " ", "S", "t", " ", "U", "n", "i", "t", " ", "9", ",", " ", "R", "e", "n", "o", ",", " ", "N", "V", " ", "8", "9", "5", "0", "1">>,
    <<"1", " ", "E", "l", "m", ",", " ", "A", "p", "a", "r", "t", "m", "e", "n", "t", ",", " ", "R", "e", "n", "o", ",", " ", "N", "V", " ", "8", "9", "5", "0", "1">>,
    <<"1", " ", "E", "l", "m", " ", "S", "t", " ", "R", "e", "n", "o", " ", "N", "V", " ", "8", "9", "5", "0", "1">>
  }

\* the arguments parseAddressWithRegex is called with: strings, and what a
\* message without a string address gives
FnArgs ==
  {Str(s) : s \in ShortStrings \cup SampleAddresses}
    \cup {Undefined, Null, Num(<<"4", "2">>)}

FnInit ==
  /\ SystemInit
  /\ fnPc = "start"
  /\ fnArg \in FnArgs
  /\ fnOnce = << >>
  /\ fnTwice = << >>
  /\ fnOut = NoOutcome

\* lines 119-123 applied to a string, and again to what they returned
ApplyNormalize ==
  /\ fnPc = "start"
  /\ fnArg.t = "str"
  /\ fnPc' = "normalized"
  /\ fnOnce' = Normalize(fnArg.v)
  /\ fnTwice' = Normalize(Normalize(fnArg.v))
  /\ UNCHANGED <<fnArg, fnOut>>
  /\ UNCHANGED popupVars
  /\ UNCHANGED bgVars

\* a call parseAddressWithRegex(fnArg)
CallRegex ==
  /\ fnPc = "start"
  /\ fnPc' = "parsed"
  /\ fnOut' = RegexOutcome(fnArg)
  /\ UNCHANGED <<fnArg, fnOnce, fnTwice>>
  /\ UNCHANGED popupVars
  /\ UNCHANGED bgVars

FnNext == ApplyNormalize \/ CallRegex

FnSpec == FnInit /\ [][FnNext]_vars

\* ------------------------------------------------------------------------
\* Claims
\* ------------------------------------------------------------------------

\* the requests whose sendResponse has been called
Answered == {r \in Req : bg[r] \in {"answered", "delivered"}}

\* C1: when the endpoint call fails, the response carries usedLLM = false;
\* usedLLM is true only when the fields come from the model's reply.
C1_FailureFlaggedAsFallback ==
  \A r \in Answered : response[r].usedLLM => ModelSucceeds(reply[r])

\* C2: when the model path fails, the six values of the response are those
\* parseAddressWithRegex returns for the request's address.
C2_FallbackEqualsRegex ==
  \A r \in Answered :
     ~ModelSucceeds(reply[r]) =>
        /\ response[r].data = parseAddressWithRegex(message[r])
        /\ response[r].data = ParseString(message[r].v)

\* a request answered after a failed endpoint call with fields the
\* deterministic parser found in its address
C2_Witness ==
  \E r \in Answered :
     /\ reply[r].kind \in {"reject", "notok", "badbody", "nocontent"}
     /\ response[r].data["ZIP"].v # << >>
     /\ response[r].data["City"].v # << >>
     /\ response[r].data # DefaultResult

\* C3: a request whose endpoint call settled is eventually answered, exactly
\* once, with success = true and a record of the six fields; a failure of
\* the model path is never delivered as an error response.
C3_AnsweredOnceWithSuccess ==
  /\ [](\A r \in Req :
          /\ sendCount[r] <= 1
          /\ bg[r] \in {"none", "pending", "fetching", "settled"} => sendCount[r] = 0
          /\ r \in Answered =>
               /\ sendCount[r] = 1
               /\ response[r].success
               /\ KeysOf(response[r].data) = AddressKeys)
  /\ \A r \in Req : (bg[r] = "settled") ~> (r \in Answered)

\* a request answered with success after its endpoint call failed, while
\* another one is still waiting for its endpoint
C3_Witness ==
  \E r \in Answered, q \in Req :
     /\ reply[r].kind = "reject"
     /\ response[r].success
     /\ sendCount[r] = 1
     /\ bg[q] = "fetching"

\* C4: for a non-empty address and any endpoint reply, the record returned
\* has exactly the six keys and every value is a string.
C4_SixStringFields ==
  \A r \in Answered :
     message[r].v # << >> =>
        /\ DOMAIN response[r].data = AddressKeys
        /\ \A k \in AddressKeys : response[r].data[k].t = "str"

\* the objects of a content whose six fields are all non-empty strings
FilledObjects(content) ==
  {content[i].obj : i \in {j \in 1..Len(content) :
      /\ content[j].seg = "obj"
      /\ \A k \in AddressKeys : content[j].obj[k].t = "str" /\ content[j].obj[k].v # << >>}}

\* C5: when the endpoint answers with a content that contains a valid JSON
\* object holding the six fields, with commentary before and after it, the
\* response data is that object's projection on the six keys and usedLLM is
\* true.  Stated for the objects whose six fields are non-empty strings, for
\* which the projection and the defaulting of lines 82-89 agree.
C5_ModelObjectReturned ==
  \A r \in Answered :
     (reply[r].kind = "content" /\ FilledObjects(reply[r].content) # {}) =>
        /\ response[r].usedLLM
        /\ \E o \in FilledObjects(reply[r].content) :
              response[r].data = [k \in AddressKeys |-> o[k]]

\* C6: processAddressData sends no 'parseAddress' message with an empty
\* address; a source record whose cleaned address is empty ends in an error
\* shown to the user.
C6_NoEmptyAddressSent ==
  \A r \in Req :
     /\ message[r].t = "str" => message[r].v # << >>
     /\ (pc[r] # "idle" /\ (~Truthy(addressData[r]["Raw Shipping Address"])
                            \/ (addressData[r]["Raw Shipping Address"].t = "str"
                                /\ CleanAddress(addressData[r]) = << >>)))
          => (pc[r] = "failed" /\ bg[r] = "none")

\* C7: parseAddressWithRegex never throws; for any argument it returns a
\* record of the six keys, and for an argument that is not a string, where
\* the exception comes before any field is filled, the default record.
C7_RegexNeverThrows ==
  fnPc = "parsed" =>
     /\ ~fnOut.threw
     /\ DOMAIN fnOut.value = AddressKeys
     /\ \A k \in AddressKeys : fnOut.value[k].t = "str"
     /\ fnOut.value["Country"] = USA
     /\ fnArg.t # "str" => fnOut.value = DefaultResult

\* a call with an argument that is not a string has returned
C7_Witness == fnPc = "parsed" /\ fnArg = Undefined /\ fnOut.value = DefaultResult

\* C8: with several requests in flight, settling in any order, each response
\* goes to its own request's callback, once, and is a function of that
\* request's address and endpoint reply alone; a step for one request leaves
\* what the others hold unchanged.
C8_RequestsIndependent ==
  /\ [](\A r \in Req :
          /\ sendCount[r] = IF r \in Answered THEN 1 ELSE 0
          /\ r \notin Answered => response[r] = NoResponse
          /\ bg[r] # "none" => message[r] = Str(CleanAddress(addressData[r]))
          /\ bg[r] \notin {"none", "pending"} => reqAddress[r] = message[r]
          /\ \A q \in Req :
               (r \in Answered /\ q \in Answered
                  /\ message[r] = message[q] /\ reply[r] = reply[q])
                 => response[r] = response[q]
          /\ \A q \in Req :
               (r \in Answered /\ q \in Answered /\ ModelSucceeds(reply[r])
                  /\ ~ModelSucceeds(reply[q]))
                 => /\ response[r].data = Project(JsonMatch(reply[r].content)[1].obj)
                    /\ response[q].data = ParseString(message[q].v))
  /\ [][\A r \in Req :
          bg'[r] = bg[r] =>
             /\ response'[r] = response[r]
             /\ sendCount'[r] = sendCount[r]
             /\ reqAddress'[r] = reqAddress[r]
             /\ reply'[r] = reply[r]
             /\ outcome'[r] = outcome[r]]_vars

\* two requests with different addresses, one answered from the model's
\* reply and one by the fallback, and the lower one answered while the
\* higher one, sent earlier or later, is answered too
C8_Witness ==
  \E r \in Answered, q \in Answered :
     /\ r < q
     /\ message[r] # message[q]
     /\ ModelSucceeds(reply[r])
     /\ ~ModelSucceeds(reply[q])
     /\ response[r].data # response[q].data

\* C9: the record written back has the keys of the source record plus the
\* six parsed keys and no others; the other keys keep their values and the
\* six hold the values of the parse response.
C9_MergeFrame ==
  \A r \in Req :
     pc[r] = "done" =>
        /\ KeysOf(result[r]) = KeysOf(addressData[r]) \cup AddressKeys
        /\ \A k \in KeysOf(addressData[r]) \ AddressKeys : result[r][k] = addressData[r][k]
        /\ \A k \in AddressKeys : result[r][k] = response[r].data[k]
        /\ statusDiv # "copy this text manually" =>
             \E q \in Req : pc[q] = "done" /\ clipboard = result[q]

\* a record written back whose source record already had one of the six keys
C9_Witness ==
  \E r \in Req :
     /\ pc[r] = "done"
     /\ "City" \in KeysOf(addressData[r])
     /\ "Account" \notin KeysOf(addressData[r])
     /\ result[r]["City"] # addressData[r]["City"]
     /\ clipboard = result[r]

\* C10: the normalization pass is idempotent, normalize(normalize(s)) =
\* normalize(s) for every string s, also with three or more commas in a row.
C10_NormalizeIdempotent == fnPc = "normalized" => fnTwice = fnOnce

\* the positions of the standalone two-uppercase-letter tokens of s: two
\* uppercase letters not adjacent to another letter or digit
StateTokens(s) ==
  {i \in 1..(Len(s) - 1) :
     /\ s[i] \in UpperLetters
     /\ s[i + 1] \in UpperLetters
     /\ i > 1 => s[i - 1] \notin Digits \cup UpperLetters \cup LowerLetters
     /\ i + 2 <= Len(s) => s[i + 2] \notin Digits \cup UpperLetters \cup LowerLetters}

\* the texts made of the last one, two or three words of s
LastWordRuns(s) ==
  LET words == SplitWords(Trim(s), 1)
  IN  {JoinWords(words, Len(words) - n + 1) : n \in {m \in 1..3 : m <= Len(words)}}

\* C11: for an input without commas in which words come right before a state
\* token, the parser returns that token as State and a non-empty City made of
\* the last one to three words before the token in the normalized string.
C11_CityBackfillFromNormalized ==
  (fnPc = "parsed" /\ fnArg.t = "str") =>
     LET cleaned == Normalize(fnArg.v)
         token == First(StateTokens(cleaned))
         before == Trim(Take(cleaned, token - 1))
     IN  (/\ IndexOf(cleaned, <<",">>) = 0
          /\ token > 1
          /\ IsSpace(cleaned[token - 1])
          /\ before # << >>)
           => /\ fnOut.value["State"] = Str(SubSeq(cleaned, token, token + 1))
              /\ fnOut.value["City"] # EmptyStr
              /\ fnOut.value["City"].v \in LastWordRuns(before)

\* C12: a non-empty State is the first standalone two-uppercase-letter token
\* of the working string left by the ZIP step, never two capitals inside a
\* longer word; and when a standalone token follows the city, after the last
\* comma, no token of the street line is returned in its place.
C12_StateIsStandaloneToken ==
  (fnPc = "parsed" /\ fnArg.t = "str") =>
     LET cleaned == Normalize(fnArg.v)
         work == AfterZip(cleaned)
         token == First(StateTokens(work))
         tail == Trim(Drop(cleaned, LastComma(cleaned) + 1))
     IN  /\ fnOut.value["State"] # EmptyStr =>
              /\ token # 0
              /\ fnOut.value["State"].v = SubSeq(work, token, token + 1)
         /\ (LastComma(cleaned) # 0 /\ 1 \in StateTokens(tail)) =>
              fnOut.value["State"].v = SubSeq(tail, 1, 2)

\* C13: ZIP is the first word-bounded match of five digits with an optional
\* hyphen and four digits, or empty; the working string after the ZIP step is
\* the one before it with exactly the matched occurrence deleted; and when
\* the ZIP is matched at one place only, no other returned field holds it.
C13_ZipRemovedWhereMatched ==
  (fnPc = "parsed" /\ fnArg.t = "str") =>
     LET cleaned == Normalize(fnArg.v)
         m == ZipMatch(cleaned)
         places == {i \in 1..Len(cleaned) :
                      /\ ZipEndAt(cleaned, i) # 0
                      /\ SubSeq(cleaned, i, ZipEndAt(cleaned, i) - 1) = m.text}
     IN  /\ fnOut.value["ZIP"] = Str(m.text)
         /\ m.index = 0 => AfterZip(cleaned) = cleaned
         /\ m.index # 0 =>
              AfterZip(cleaned) =
                 Take(cleaned, m.index - 1) \o Drop(cleaned, m.index + Len(m.text))
         /\ (m.index # 0 /\ Cardinality(places) = 1) =>
              \A k \in AddressKeys \ {"ZIP"} : IndexOf(fnOut.value[k].v, m.text) = 0

\* the places past the start of a street portion where one of the three
\* unit-designator patterns matches
DesignatorPlaces(s) ==
  {i \in 2..Len(s) : Pattern1At(s, i) \/ Pattern2At(s, i) \/ Pattern3At(s, i)}

\* C14: the street portion is split at the smallest offset greater than zero
\* at which one of the three pattern families matches, also when the portion
\* begins with a designator; Address 1 is the non-empty text before that
\* offset and Address 2 the text from it onward.
C14_SplitAtSmallestPositiveOffset ==
  (fnPc = "parsed" /\ fnArg.t = "str") =>
     LET address == CleanCommas(AfterState(AfterZip(Normalize(fnArg.v))))
         lastComma == LastComma(address)
         streetParts == Trim(Take(address, lastComma - 1))
         split == First(DesignatorPlaces(streetParts))
     IN  (lastComma # 0 /\ split # 0) =>
           /\ fnOut.value["Address 1"] = Str(Trim(Take(streetParts, split - 1)))
           /\ fnOut.value["Address 1"] # EmptyStr
           /\ fnOut.value["Address 2"] = Str(Trim(Drop(streetParts, split)))

\* the four trimmed parts of a string with exactly three commas
CommaParts(s) ==
  LET commas == {i \in 1..Len(s) : s[i] = ","}
      c1 == First(commas)
      c3 == LastComma(s)
      c2 == CHOOSE c \in commas : c # c1 /\ c # c3
  IN  <<Trim(Take(s, c1 - 1)), Trim(SubSeq(s, c1 + 1, c2 - 1)),
        Trim(SubSeq(s, c2 + 1, c3 - 1)), Trim(Drop(s, c3 + 1))>>

\* is s of the form '<street>, <unit clause>, <city>, <ST> <zip>', the unit
\* clause starting with a unit-designator keyword or '#'
IsStreetUnitCityStateZip(s) ==
  /\ Cardinality({i \in 1..Len(s) : s[i] = ","}) = 3
  /\ LET parts == CommaParts(s)
     IN  /\ parts[1] # << >>
         /\ LooksLikeAddr2(parts[2])
         /\ parts[3] # << >>
         /\ Len(parts[4]) >= 8
         /\ parts[4][1] \in UpperLetters
         /\ parts[4][2] \in UpperLetters
         /\ parts[4][3] = " "
         /\ ZipEndAt(parts[4], 4) = Len(parts[4]) + 1

\* C15: for an input '<street>, <unit clause>, <city>, <ST> <zip>' the parser
\* returns the street text alone as Address 1, with no trailing comma, the
\* unit clause as Address 2, and the city, state and zip parts as City, State
\* and ZIP.
C15_StreetUnitCityStateZip ==
  (fnPc = "parsed" /\ fnArg.t = "str" /\ IsStreetUnitCityStateZip(Normalize(fnArg.v))) =>
     LET parts == CommaParts(Normalize(fnArg.v))
     IN  /\ fnOut.value["Address 1"] = Str(parts[1])
         /\ fnOut.value["Address 2"] = Str(parts[2])
         /\ fnOut.value["City"] = Str(parts[3])
         /\ fnOut.value["State"] = Str(SubSeq(parts[4], 1, 2))
         /\ fnOut.value["ZIP"] = Str(Drop(parts[4], 4))

====
